---- MODULE Spec2Model ----
(***************************************************************************)
(* A model of cmd/guess_deps.go: GuessDeps, findDeps, compactDeps and      *)
(* guessPackageName.                                                       *)
(*                                                                         *)
(* Strings are sequences of symbols, one symbol per character (the path    *)
(* segments "vendor", "testdata" and "main" are single symbols), so that   *)
(* strings.HasPrefix, strings.TrimPrefix and strings.Trim are computed     *)
(* position by position as the Go library computes them.                   *)
(*                                                                         *)
(* The go/build resolver and the file system are the environment: Init     *)
(* chooses one world (what every Import / ImportDir call answers) and the  *)
(* run of GuessDeps on that world is then deterministic.                   *)
(***************************************************************************)
EXTENDS Integers, Sequences, FiniteSets, TLC

\* Bound on the depth of the findDeps recursion (the Go stack is finite too).
MaxDepth == 5

(***************************************************************************)
(* Strings                                                                 *)
(***************************************************************************)
Sep == "/"
Empty == <<>>
Dot == <<".">>
Main == <<"main">>
C == <<"C">>
Vendor == <<"/", "vendor", "/">>

\* Import paths of the worlds: the project p, its sub-packages p/s and p/t,
\* a foreign package pb whose name merely starts with "p", the external
\* packages d, d/s, e, g, the standard-library package f, and x, t which
\* exist nowhere. One world has a resolver that answers the root with an
\* empty import path (a name below "/vendor/" is then an absolute path,
\* which does not resolve).
P == <<"p">>
PS == <<"p", "/", "s">>
PT == <<"p", "/", "t">>
PB == <<"p", "b">>
D == <<"d">>
DS == <<"d", "/", "s">>
E == <<"e">>
G == <<"g">>
F == <<"f">>
X == <<"x">>
T == <<"t">>

GoPath == <<"/", "g">>
AbsUnder == <<"/", "g", "/", "p", "/">>
AbsOutside == <<"/", "h">>

HasPrefix(s, prefix) ==
    /\ Len(prefix) <= Len(s)
    /\ SubSeq(s, 1, Len(prefix)) = prefix

TrimPrefix(s, prefix) ==
    IF HasPrefix(s, prefix) THEN SubSeq(s, Len(prefix) + 1, Len(s)) ELSE s

\* strings.Trim(s, cutset) for a one-character cutset: strips it from both ends.
Trim(s, ch) ==
    LET keep == {i \in 1..Len(s) : s[i] # ch}
    IN  IF keep = {} THEN Empty
        ELSE LET lo == CHOOSE i \in keep : \A j \in keep : i <= j
                 hi == CHOOSE i \in keep : \A j \in keep : j <= i
             IN  SubSeq(s, lo, hi)

Range(s) == {s[i] : i \in 1..Len(s)}

\* NormalizeName: the top-level identity of an import path, the path with its
\* sub-package suffix stripped (here: the first path segment).
NormalizeName(name) ==
    LET seps == {i \in 1..Len(name) : name[i] = Sep}
    IN  IF seps = {} THEN name
        ELSE SubSeq(name, 1, (CHOOSE i \in seps : \A j \in seps : i <= j) - 1)

(***************************************************************************)
(* The environment: resolver answers                                       *)
(***************************************************************************)
\* go/build returns a non-nil *Package with partial information (at least
\* ImportPath) together with an error.
Ok(path, imports) ==
    [err |-> "nil", ImportPath |-> path, Goroot |-> FALSE, Imports |-> imports]
Std(path) ==
    [err |-> "nil", ImportPath |-> path, Goroot |-> TRUE, Imports |-> <<>>]
Fail(kind, path) ==
    [err |-> kind, ImportPath |-> path, Goroot |-> FALSE, Imports |-> <<>>]

RootImports ==
    { <<>>, <<F, C>>, <<PS>>, <<D>>, <<D, E>>, <<E, D>>, <<DS, D>>, <<PS, PT>> }
RootOpts ==
    {Ok(ip, imps) : ip \in {P, PS}, imps \in RootImports}
        \cup {Fail("NoGo", P), Fail("NoGo", Dot), Fail("Other", Dot)}
PSOpts == {Ok(PS, imps) : imps \in { <<>>, <<PT>>, <<D, F>>, <<PB, DS, C>> }}
PTOpts == {Ok(PT, imps) : imps \in { <<>>, <<PS>> }}
DOpts == {Ok(D, <<>>), Ok(D, <<E>>), Fail("Other", D), Fail("NoGo", D)}
VDOpts == {Fail("Other", D), Ok(D, <<G>>), Ok(D, <<X>>), Ok(D, <<E>>)}
EOpts == {Ok(E, <<>>), Ok(E, <<X, G>>), Fail("Other", E), Fail("NoGo", E)}

Worlds ==
    {[ctxOK |-> TRUE, cwdOK |-> TRUE, base |-> Dot, GOPATH |-> GoPath,
      root |-> r, pS |-> s, pT |-> t, d |-> d, vd |-> v, e |-> e] :
        r \in RootOpts, s \in PSOpts, t \in PTOpts, d \in DOpts,
        v \in VDOpts, e \in EOpts}
SpecialWorlds ==
    LET w0 == [ctxOK |-> TRUE, cwdOK |-> TRUE, base |-> Dot, GOPATH |-> GoPath,
               root |-> Ok(P, <<D>>), pS |-> Ok(PS, <<>>), pT |-> Ok(PT, <<>>),
               d |-> Ok(D, <<>>), vd |-> Fail("Other", D), e |-> Ok(E, <<>>)]
    IN  { [w0 EXCEPT !.ctxOK = FALSE],
          [w0 EXCEPT !.cwdOK = FALSE],
          [w0 EXCEPT !.base = AbsUnder, !.root = Fail("Other", AbsUnder)],
          [w0 EXCEPT !.base = AbsOutside, !.root = Fail("Other", AbsOutside)],
          [w0 EXCEPT !.root = Ok(Empty, <<D>>), !.d = Ok(D, <<E>>)] }

VARIABLES
    world,      \* the environment's answers, fixed for the run
    pc,         \* position of GuessDeps
    stack,      \* the findDeps call stack
    soFar,      \* the deps map of GuessDeps (soFar inside findDeps)
    err,        \* the error returned by the top-level findDeps
    name,       \* the guessed project name
    wi,         \* position of filepath.Walk in the tree
    deps,       \* the compacted map
    config,     \* the configuration handed to the caller
    calls,      \* history: the b.Import calls of the walk, in order
    bothFailed, \* history: some import failed in both overlay and plain form
    trace,      \* history: the calls and returns of findDeps, in order
    importDirs, \* history: the paths passed to ImportDir
    visited,    \* history: the paths the Walk callback was called with
    run,        \* which call of GuessDeps this is, 1 or 2
    first       \* history: the Imports the first call returned

vars == <<world, pc, stack, soFar, err, name, wi, deps, config, calls,
          bothFailed, trace, importDirs, visited, run, first>>

\* b.Import(name, cwd, 0)
Import(n) ==
    IF n = world.base \/ n = world.root.ImportPath THEN world.root
    ELSE IF n = world.root.ImportPath \o Vendor \o D
        THEN [world.vd EXCEPT !.ImportPath = n]
    ELSE IF n = PS THEN world.pS
    ELSE IF n = PT THEN world.pT
    ELSE IF n = D THEN world.d
    ELSE IF n = E THEN world.e
    ELSE IF n \in {PB, DS, G} THEN Ok(n, <<>>)
    ELSE IF n = F THEN Std(n)
    ELSE Fail("Other", n)


\* buildContext.ImportDir(path, 0) for a path below base, as the sequence of
\* its segments: the root, the sub-packages s and t, the fixture package
\* testdata/x (which imports t) and the vendored copy vendor/d.
ImportDir(path) ==
    IF path = <<>> THEN world.root
    ELSE IF path = <<"s">> THEN world.pS
    ELSE IF path = <<"t">> THEN world.pT
    ELSE IF path = <<"testdata", "x">> THEN Ok(<<"x">>, <<T>>)
    ELSE IF path = <<"vendor", "d">> THEN world.vd
    ELSE Fail("NoGo", Dot)

\* The tree below base in the lexical order of filepath.Walk.
Tree ==
    << <<>>, <<"s">>, <<"t">>, <<"testdata">>, <<"testdata", "x">>,
       <<"vendor">>, <<"vendor", "d">> >>

\* filepath.Base
Base(path) == IF path = <<>> THEN "." ELSE path[Len(path)]

IsDir(path) == TRUE

\* excludeSubtree: the directories named for a vendor or fixture overlay.
excludeSubtree(path) == Base(path) \in {"vendor", "testdata"}

\* findPkg: the classification of an import name.
findPkg(imp) ==
    LET pkg == Import(imp)
    IN  [Name |-> imp,
         PType |-> IF imp = C THEN "ptypeCgo"
                   ELSE IF pkg.err = "nil" /\ pkg.Goroot THEN "ptypeGoroot"
                   ELSE IF pkg.err = "Other" THEN "ptypeUnknown"
                   ELSE "ptypeGopath"]

(***************************************************************************)
(* findDeps                                                                *)
(***************************************************************************)
Frame(n, vpath) ==
    [name |-> n, vpath |-> vpath, Imports |-> <<>>, i |-> 0, st |-> "start"]

Top == stack[Len(stack)]
Pop(stk) == SubSeq(stk, 1, Len(stk) - 1)
SetTop(stk, f) == [stk EXCEPT ![Len(stk)] = f]

\* Register without the check of line 134: every resolved name is registered.
RegisterAlways(set, vpath, realName) == set \cup {realName}

\* Lines 131-136: register the name unless it is the top level package.
Register(set, vpath, realName) ==
    LET lookupName == NormalizeName(realName)
    IN  IF vpath # lookupName THEN set \cup {realName} ELSE set

\* findDeps without the return of lines 119-121.
InGorootNever(pkg) == FALSE

\* Lines 119-121: a package of the GOROOT is not descended into.
InGoroot(pkg) == pkg.Goroot

\* Lines 142-146, the return of a call to its caller: after a failed overlay
\* attempt the caller calls the plain form; after a failed plain attempt the
\* caller returns the error itself; after a success it goes on with its next
\* import. The result is the stack after every return this one causes, the
\* error of the top-level call once that has returned, whether some import
\* failed in both forms, and the returns and the call this makes, in order.
CallEv(n) == [ev |-> "call", name |-> n, err |-> "nil"]
RetEv(n, r) == [ev |-> "ret", name |-> n, err |-> r]

RECURSIVE Return(_, _)
Return(stk, r) ==
    LET rest == Pop(stk)
        ret == RetEv(stk[Len(stk)].name, r)
    IN  IF rest = <<>>
        THEN [stack |-> rest, done |-> TRUE, err |-> r, failed |-> FALSE,
              events |-> <<ret>>]
        ELSE LET p == rest[Len(rest)]
                 next == [p EXCEPT !.st = "loop", !.i = p.i + 1]
             IN  IF r = "nil"
                 THEN [stack |-> SetTop(rest, next), done |-> FALSE,
                       err |-> "nil", failed |-> FALSE, events |-> <<ret>>]
                 ELSE IF p.st = "vendor"
                 THEN [stack |-> Append(SetTop(rest, [p EXCEPT !.st = "plain"]),
                                        Frame(p.Imports[p.i], p.vpath)),
                       done |-> FALSE, err |-> "nil", failed |-> FALSE,
                       events |-> <<ret, CallEv(p.Imports[p.i])>>]
                 ELSE LET up == Return(rest, r)
                      IN  [up EXCEPT !.failed = TRUE,
                                     !.events = <<ret>> \o up.events]

\* The effect of the top call returning r.
DoReturn(r) ==
    LET res == Return(stack, r)
    IN  /\ stack' = res.stack
        /\ bothFailed' = (bothFailed \/ res.failed)
        /\ trace' = trace \o res.events
        /\ IF res.done
           THEN /\ err' = res.err
                /\ pc' = "guessName"
           ELSE UNCHANGED <<err, pc>>

\* Lines 104-136: the entry of a call, up to the loop over the imports.
FindDepsEnter ==
    /\ pc = "findDeps"
    /\ stack # <<>>
    /\ Top.st = "start"
    /\ UNCHANGED <<world, run, first, name, wi, deps, config, importDirs, visited>>
    /\ IF ~world.cwdOK
       THEN DoReturn("Other") /\ UNCHANGED <<soFar, calls>>
       ELSE IF Top.name = C
       THEN DoReturn("nil") /\ UNCHANGED <<soFar, calls>>
       ELSE LET pkg == Import(Top.name)
            IN  /\ calls' = Append(calls, [name |-> Top.name, err |-> pkg.err])
                /\ IF pkg.err # "nil"
                   THEN DoReturn(pkg.err) /\ UNCHANGED soFar
                   ELSE IF InGoroot(pkg)
                   THEN DoReturn("nil") /\ UNCHANGED soFar
                   ELSE LET vpath == IF Top.vpath = Empty THEN pkg.ImportPath
                                     ELSE Top.vpath
                            realName == TrimPrefix(pkg.ImportPath, vpath \o Vendor)
                        IN  /\ soFar' = Register(soFar, vpath, realName)
                            /\ stack' = SetTop(stack,
                                   [Top EXCEPT !.vpath = vpath,
                                               !.Imports = pkg.Imports,
                                               !.i = 1, !.st = "loop"])
                            /\ UNCHANGED <<err, pc, bothFailed, trace>>

\* The first attempt of line 142 made with the plain name.
OverlayNamePlain(vpath, imp) == imp

\* Line 142: the name of an import below the vendor directory of vpath.
OverlayName(vpath, imp) == vpath \o Vendor \o imp

\* Lines 137-149: one turn of the loop over pkg.Imports.
FindDepsLoop ==
    /\ pc = "findDeps"
    /\ stack # <<>>
    /\ Top.st = "loop"
    /\ UNCHANGED <<world, run, first, soFar, name, wi, deps, config, calls, importDirs, visited>>
    /\ IF Top.i > Len(Top.Imports)
       THEN DoReturn("nil")
       ELSE LET imp == Top.Imports[Top.i]
            IN  IF imp \in soFar
                THEN /\ stack' = SetTop(stack, [Top EXCEPT !.i = Top.i + 1])
                     /\ UNCHANGED <<err, pc, bothFailed, trace>>
                ELSE /\ Len(stack) < MaxDepth
                     /\ stack' = Append(SetTop(stack, [Top EXCEPT !.st = "vendor"]),
                                        Frame(OverlayName(Top.vpath, imp), Top.vpath))
                     /\ trace' = Append(trace, CallEv(OverlayName(Top.vpath, imp)))
                     /\ UNCHANGED <<err, pc, bothFailed>>

(***************************************************************************)
(* guessPackageName, compactDeps                                           *)
(***************************************************************************)
\* Lines 169-186.
guessPackageName(base) ==
    IF ~world.cwdOK THEN Main
    ELSE LET pkg == Import(base)
         IN  IF pkg.err # "nil" /\ HasPrefix(base, world.GOPATH)
             THEN Trim(TrimPrefix(base, world.GOPATH), Sep)
             ELSE pkg.ImportPath

\* Lines 157-165: the loop over the map, one key at a time.
RECURSIVE compactLoop(_, _)
compactLoop(keys, basePackages) ==
    IF keys = {} THEN basePackages
    ELSE LET k == CHOOSE k \in keys : TRUE
         IN  compactLoop(keys \ {k}, basePackages \cup {NormalizeName(k)})

\* compactDeps registering the keys as they are, without NormalizeName.
compactDepsRaw(set) == set

compactDeps(set) == compactLoop(set, {})

(***************************************************************************)
(* GuessDeps                                                               *)
(***************************************************************************)
\* Lines 18-24.
Start ==
    /\ pc = "start"
    /\ IF world.ctxOK
       THEN /\ pc' = "findDeps"
            /\ stack' = <<Frame(world.base, Empty)>>
            /\ trace' = <<CallEv(world.base)>>
       ELSE /\ pc' = "aborted"
            /\ UNCHANGED <<stack, trace>>
    /\ UNCHANGED <<world, run, first, soFar, err, name, wi, deps, config, calls,
                   bothFailed, importDirs, visited>>

\* Lines 25-31.
GuessName ==
    /\ pc = "guessName"
    /\ name' = guessPackageName(world.base)
    /\ pc' = IF err = "NoGo" THEN "walk" ELSE "compact"
    /\ wi' = 1
    /\ UNCHANGED <<world, run, first, stack, soFar, err, deps, config, calls, bothFailed,
                   trace, importDirs, visited>>

\* Lines 53-59: an import that is skipped as the project's own.
SkipOwn(imp, project) == HasPrefix(imp, project) \/ imp = project

\* Lines 61-67 with a case that also drops the imports found nowhere.
KeepFound(found) ==
    found.PType \notin {"ptypeGoroot", "ptypeCgo", "ptypeUnknown"}

\* Lines 61-67: an import that is kept after its classification.
Keep(found) == found.PType \notin {"ptypeGoroot", "ptypeCgo"}

\* Lines 51-68 with a scanner that also follows each kept import into the
\* imports of the package it names.
ScanImportsTransitive(pkg, project) ==
    LET kept == {imp \in Range(pkg.Imports) :
                    ~SkipOwn(imp, project) /\ Keep(findPkg(imp))}
    IN  kept \cup UNION {Range(Import(imp).Imports) : imp \in kept}

\* Lines 51-68: the imports of one scanned package that are added to the set.
ScanImports(pkg, project) ==
    {imp \in Range(pkg.Imports) : ~SkipOwn(imp, project) /\ Keep(findPkg(imp))}

\* Lines 36-38: where the walk goes on after the callback returned SkipDir
\* for the directory at position i: past everything below it.
RECURSIVE SkipDir(_, _)
SkipDir(i, j) ==
    IF j <= Len(Tree) /\ HasPrefix(Tree[j], Tree[i]) THEN SkipDir(i, j + 1) ELSE j

\* Lines 32-71: one call of the Walk callback.
WalkStep ==
    /\ pc = "walk"
    /\ wi <= Len(Tree)
    /\ LET path == Tree[wi]
       IN  /\ visited' = visited \cup {path}
           /\ IF excludeSubtree(path)
              THEN /\ wi' = IF IsDir(path) /\ Base(path) \in {"vendor", "testdata"}
                            THEN SkipDir(wi, wi + 1) ELSE wi + 1
                   /\ UNCHANGED <<soFar, importDirs>>
              ELSE /\ importDirs' = importDirs \cup {path}
                   /\ wi' = wi + 1
                   /\ LET pkg == ImportDir(path)
                      IN  IF pkg.err # "nil" \/ pkg.Goroot
                          THEN UNCHANGED soFar
                          ELSE soFar' = soFar \cup ScanImports(pkg, name)
    /\ UNCHANGED <<world, run, first, pc, stack, err, name, deps, config, calls, bothFailed,
                   trace>>

\* Line 72: the walk is over.
WalkDone ==
    /\ pc = "walk"
    /\ wi > Len(Tree)
    /\ pc' = "compact"
    /\ UNCHANGED <<world, run, first, stack, soFar, err, name, wi, deps, config, calls,
                   bothFailed, trace, importDirs, visited>>

\* Line 74.
Compact ==
    /\ pc = "compact"
    /\ deps' = compactDeps(soFar)
    /\ pc' = "delete"
    /\ UNCHANGED <<world, run, first, stack, soFar, err, name, wi, config, calls,
                   bothFailed, trace, importDirs, visited>>

\* Lines 75-94: the base is deleted and the configuration is returned.
Finish ==
    /\ pc = "delete"
    /\ deps' = deps \ {world.base}
    /\ config' = [Name |-> name, Imports |-> deps']
    /\ pc' = "done"
    /\ UNCHANGED <<world, run, first, stack, soFar, err, name, wi, calls, bothFailed,
                   trace, importDirs, visited>>

Init ==
    /\ world \in Worlds \cup SpecialWorlds
    /\ pc = "start"
    /\ stack = <<>>
    /\ soFar = {}
    /\ err = "nil"
    /\ name = Empty
    /\ wi = 0
    /\ deps = {}
    /\ config = [Name |-> Empty, Imports |-> {}]
    /\ calls = <<>>
    /\ bothFailed = FALSE
    /\ trace = <<>>
    /\ importDirs = {}
    /\ visited = {}
    /\ run = 1
    /\ first = {}

Next ==
    \/ Start
    \/ FindDepsEnter
    \/ FindDepsLoop
    \/ GuessName
    \/ WalkStep
    \/ WalkDone
    \/ Compact
    \/ Finish

Spec == Init /\ [][Next]_vars

\* The import list of a package in another order.
Reverse(s) == [i \in 1..Len(s) |-> s[Len(s) + 1 - i]]
Reordered(pkg) == {pkg, [pkg EXCEPT !.Imports = Reverse(pkg.Imports)]}

\* The environments that differ from w only in the order in which packages
\* list their imports.
Reorderings(w) ==
    {[w EXCEPT !.root = r, !.pS = s, !.pT = t, !.d = dd, !.vd = v, !.e = ee] :
        r \in Reordered(w.root), s \in Reordered(w.pS), t \in Reordered(w.pT),
        dd \in Reordered(w.d), v \in Reordered(w.vd), ee \in Reordered(w.e)}

\* Line 17, a second call of GuessDeps on the same base, after the packages'
\* import lists have been reordered.
Rerun ==
    /\ pc = "done"
    /\ run = 1
    /\ world' \in Reorderings(world) \ {world}
    /\ run' = 2
    /\ first' = config.Imports
    /\ pc' = "start"
    /\ stack' = <<>>
    /\ soFar' = {}
    /\ err' = "nil"
    /\ name' = Empty
    /\ wi' = 0
    /\ deps' = {}
    /\ config' = [Name |-> Empty, Imports |-> {}]
    /\ calls' = <<>>
    /\ bothFailed' = FALSE
    /\ trace' = <<>>
    /\ importDirs' = {}
    /\ visited' = {}

NextReordered ==
    \/ Next
    \/ Rerun

\* GuessDeps called twice, the second time on the reordered import lists.
SpecReordered == Init /\ [][NextReordered]_vars


(***************************************************************************)
(* Properties                                                              *)
(***************************************************************************)
Resolved(n) == \E k \in 1..Len(calls) : calls[k] = [name |-> n, err |-> "nil"]
IsStd(n) == Import(n).err = "nil" /\ Import(n).Goroot
FallbackRan == visited # {}
NamePast == pc \in {"walk", "compact", "delete", "done"}

C2_NoStdlibNoCgo ==
    \A dep \in soFar \cup deps \cup config.Imports : dep # C /\ ~IsStd(dep)

\* A finished run in which the standard-library package f was imported only
\* below the root (by p/s) and resolved by the walk, beside a dependency.
C2_Witness ==
    /\ pc = "done"
    /\ F \notin Range(world.root.Imports)
    /\ Resolved(F)
    /\ D \in config.Imports

\* The directories of the tree that are not inside a vendor or fixture
\* directory, and those that are.
Skipped(path) == \E k \in 1..Len(path) : path[k] \in {"vendor", "testdata"}
DeclaredIn(paths) ==
    UNION {Range(ImportDir(path).Imports) :
              path \in {q \in paths : ImportDir(q).err = "nil"}}

\* C3: after a fallback scan caused by a root without buildable source, every
\* import of a scanned non-standard-library package that is neither the
\* project's name nor a sub-package of it, and is not classified as standard
\* library or cgo, has its top-level identity in the final set.
C3_FallbackReportsForeignImports ==
    (pc = "done" /\ world.root.err = "NoGo") =>
        \A path \in {q \in Range(Tree) : ~Skipped(q)} :
            LET pkg == ImportDir(path)
            IN  (pkg.err = "nil" /\ ~pkg.Goroot) =>
                  \A imp \in Range(pkg.Imports) :
                     ( /\ imp # name
                       /\ ~HasPrefix(imp, name \o <<Sep>>)
                       /\ findPkg(imp).PType \notin {"ptypeGoroot", "ptypeCgo"} )
                     => NormalizeName(imp) \in config.Imports

\* C4: a project whose packages import only the project and the standard
\* library ends with an empty dependency set.
ZeroExternalImports ==
    \A pkg \in {world.root, world.pS, world.pT} :
        Range(pkg.Imports) \subseteq {P, PS, PT, F, C}
C4_ZeroExternalImportsGiveEmptySet ==
    (pc = "done" /\ ZeroExternalImports) => config.Imports = {}

\* C5: a failure other than "no buildable source" of the top-level findDeps
\* aborts the run: no configuration is handed over.
C5_OtherErrorIsFatal ==
    err = "Other" => pc # "done"

\* C6: compactDeps returns exactly the top-level identities of its input and
\* leaves the input as it was.
C6_CompactIsNormalizedImage ==
    [][pc = "compact" =>
          /\ deps' = {NormalizeName(k) : k \in soFar}
          /\ soFar' = soFar]_vars

\* compactDeps has returned for an input holding d and d/s: one entry d.
C6_Witness ==
    /\ pc = "delete"
    /\ {D, DS} \subseteq soFar
    /\ deps = {D}

\* C7: the fallback scan never resolves a vendor or testdata directory, never
\* visits anything below one, and no import declared only inside one is in
\* the final set.
C7_SkippedDirectoriesContributeNothing ==
    /\ \A path \in importDirs : ~Skipped(path)
    /\ \A path \in visited : ~Skipped(SubSeq(path, 1, Len(path) - 1))
    /\ (pc = "done" /\ FallbackRan) =>
          LET inside == DeclaredIn({q \in Range(Tree) : Skipped(q)})
              outside == DeclaredIn({q \in Range(Tree) : ~Skipped(q)})
          IN  \A imp \in inside :
                 NormalizeName(imp) \notin {NormalizeName(o) : o \in outside}
                     => NormalizeName(imp) \notin config.Imports

\* C8: guessPackageName returns the root's import path when the root
\* resolves, else the root's path relative to the GOPATH when it lies under
\* it, else "main".
C8_GuessedNameOrMain ==
    NamePast =>
        name = IF world.cwdOK /\ world.root.err = "nil" THEN world.root.ImportPath
               ELSE IF HasPrefix(world.base, world.GOPATH)
                   THEN Trim(TrimPrefix(world.base, world.GOPATH), Sep)
               ELSE Main

\* C9: the fallback scan runs only when resolving the root itself reported
\* no buildable source.
C9_FallbackOnlyForRootWithoutSource ==
    FallbackRan => world.root.err = "NoGo"

\* C10: once an import has failed in both its overlay and its plain form, the
\* walk resolves and registers nothing more and its top-level call returns an
\* error.
C10_ErrorAbortsWalk ==
    [][(pc = "findDeps" /\ bothFailed) =>
          /\ calls' = calls
          /\ soFar' = soFar
          /\ (pc' # "findDeps" => err' # "nil")]_vars


\* A call of the log that resolved a package and went on into its imports.
Descended(c) == c.err = "nil" /\ ~Import(c.name).Goroot

\* C11: within one direct walk no import path is resolved and descended into
\* more than once.
C11_DescendedAtMostOnce ==
    \A j, k \in 1..Len(calls) :
        (j < k /\ Descended(calls[j]) /\ Descended(calls[k]))
            => calls[j].name # calls[k].name


\* The imports declared by the scanned directories that resolved to a package
\* outside the GOROOT.
ScannedImports ==
    UNION {Range(ImportDir(path).Imports) :
              path \in {q \in importDirs :
                           ImportDir(q).err = "nil" /\ ~ImportDir(q).Goroot}}
Unresolvable(imp) == Import(imp).err = "Other"

\* C12 as claimed: an import of a scanned package that resolves nowhere is
\* left out of the dependency set.
C12_FailedImportExcluded ==
    \A imp \in ScannedImports : Unresolvable(imp) => imp \notin soFar

\* C12 as amended: a directory that does not resolve contributes nothing, but
\* an import of a scanned package that resolves nowhere is added to the set
\* like any other import, unless it is "C" or is skipped as the project's own.
C12_FailedImportReported ==
    /\ \A imp \in ScannedImports :
          (Unresolvable(imp) /\ imp # C /\ ~SkipOwn(imp, name)) => imp \in soFar
    /\ world.root.err = "NoGo" => soFar \subseteq ScannedImports

\* A finished fallback scan of a tree whose package s imports d, which
\* resolves nowhere: d is reported.
C12_Witness ==
    /\ pc = "done"
    /\ world.root.err = "NoGo"
    /\ Unresolvable(D)
    /\ D \in Range(world.pS.Imports)
    /\ D \in config.Imports


\* The import graph of the world: the imports of the package an import path
\* names, in its overlay and in its plain form.
ImportsOf(n) ==
    LET overlay == Import(world.root.ImportPath \o Vendor \o n)
        plain == Import(n)
    IN  (IF overlay.err = "nil" THEN Range(overlay.Imports) ELSE {})
            \cup (IF plain.err = "nil" THEN Range(plain.Imports) ELSE {})

RECURSIVE Closure(_)
Closure(set) ==
    LET more == set \cup UNION {ImportsOf(n) : n \in set}
    IN  IF more = set THEN set ELSE Closure(more)

\* The distinct import paths of the graph below the root, the root included.
DistinctPaths == Closure({world.root.ImportPath})

\* The import relation among distinct normalized paths.
NormSucc(a) ==
    {NormalizeName(m) :
        m \in UNION {ImportsOf(n) : n \in {q \in DistinctPaths : NormalizeName(q) = a}}}
        \ {a}
RECURSIVE NormClosure(_)
NormClosure(set) ==
    LET more == set \cup UNION {NormSucc(a) : a \in set}
    IN  IF more = set THEN set ELSE NormClosure(more)
NormAcyclic ==
    \A a \in {NormalizeName(n) : n \in DistinctPaths} : a \notin NormClosure(NormSucc(a))
AllResolve ==
    \A n \in DistinctPaths \ {C} :
        \/ Import(n).err = "nil"
        \/ Import(world.root.ImportPath \o Vendor \o n).err = "nil"

\* C13: when every import resolves and the import relation among distinct
\* normalized paths is acyclic, the recursion of findDeps is never deeper than
\* the number of distinct import paths.
C13_DepthBoundedByDistinctPaths ==
    (AllResolve /\ NormAcyclic) => Len(stack) <= Cardinality(DistinctPaths)


\* A name as line 142 builds it, and the import it was built from.
VendorAt(n) == {i \in 1..(Len(n) - 2) : SubSeq(n, i, i + 2) = Vendor}
IsOverlay(n) == VendorAt(n) # {}
PlainOf(n) ==
    LET i == CHOOSE i \in VendorAt(n) : \A j \in VendorAt(n) : i <= j
    IN  SubSeq(n, i + 3, Len(n))

\* C14: below the root, findDeps is called with a plain import name only
\* right after the call with its overlay form returned an error; and once an
\* overlay call has returned without error, the import is registered under
\* its de-vendored name only and its plain form is not called afterwards.
C14_OverlayFirstPlainOnFailure ==
    \A k \in 1..Len(trace) :
        /\ (k > 1 /\ trace[k].ev = "call" /\ ~IsOverlay(trace[k].name)) =>
              /\ trace[k - 1].ev = "ret"
              /\ IsOverlay(trace[k - 1].name)
              /\ PlainOf(trace[k - 1].name) = trace[k].name
              /\ trace[k - 1].err # "nil"
        /\ (trace[k].ev = "ret" /\ IsOverlay(trace[k].name) /\ trace[k].err = "nil") =>
              /\ PlainOf(trace[k].name) \in soFar
              /\ trace[k].name \notin soFar
              /\ \A j \in (k + 1)..Len(trace) :
                    ~(trace[j].ev = "call" /\ trace[j].name = PlainOf(trace[k].name))

\* A finished run in which the overlay call for d returned without error and
\* the plain form of another import was called after its overlay call failed.
C14_Witness ==
    /\ pc = "done"
    /\ \E k \in 1..Len(trace) :
          trace[k] = RetEv(world.root.ImportPath \o Vendor \o D, "nil")
    /\ \E k \in 1..Len(trace) : trace[k] = CallEv(G)
    /\ D \in config.Imports

\* The imports that only a dependency of a scanned package declares.
TransitiveOnly ==
    (UNION {Range(Import(imp).Imports) : imp \in ScannedImports}) \ ScannedImports

\* C15: when the root has no buildable source and the fallback scan has run,
\* every entry of the final dependency set is the normalized name of an
\* import that a package of a scanned directory declares itself; an import
\* that only a dependency declares is not in the set.
C15_FallbackSetIsDirectImports ==
    (pc = "done" /\ world.root.err = "NoGo") =>
        /\ config.Imports \subseteq {NormalizeName(imp) : imp \in ScannedImports}
        /\ \A imp \in TransitiveOnly :
              NormalizeName(imp) \notin {NormalizeName(m) : m \in ScannedImports}
                  => NormalizeName(imp) \notin config.Imports

\* A finished fallback scan that found d in the sub-package s while d itself
\* imports e, which no scanned package declares.
C15_Witness ==
    /\ pc = "done"
    /\ world.root.err = "NoGo"
    /\ FallbackRan
    /\ D \in Range(world.pS.Imports)
    /\ Import(D).err = "nil"
    /\ E \in Range(Import(D).Imports)
    /\ E \in TransitiveOnly
    /\ config.Imports = {D}

\* The recursive calls of findDeps that have not yet passed line 123: their
\* frame still holds the vpath argument they were called with.
EnteringCalls == {k \in 2..Len(stack) : stack[k].st = "start"}

C17_ImportOrderIrrelevant ==
    (run = 2 /\ pc = "done") => config.Imports = first

\* The package an import of the walk stands for: its overlay form if that
\* resolves, else its plain form.
Chosen(imp) ==
    LET overlay == Import(world.root.ImportPath \o Vendor \o imp)
    IN  IF overlay.err = "nil" THEN overlay ELSE Import(imp)

\* The de-vendored import paths reachable from the given ones through the
\* declared imports of the chosen packages outside the standard library.
StepFrom(imp) ==
    LET pkg == Chosen(imp)
    IN  IF pkg.err = "nil" /\ ~pkg.Goroot THEN Range(pkg.Imports) \ {C} ELSE {}
RECURSIVE ReachFrom(_)
ReachFrom(set) ==
    LET more == set \cup UNION {StepFrom(imp) : imp \in set}
    IN  IF more = set THEN set ELSE ReachFrom(more)
Reachable == ReachFrom(Range(world.root.Imports) \ {C})

InProject(imp) == NormalizeName(imp) = NormalizeName(world.root.ImportPath)
WalkReturned == pc \in {"guessName", "walk", "compact", "delete", "done"}

\* C18: when the top-level findDeps has returned without error, every
\* package outside the standard library and outside the project that is
\* reachable from the root through declared imports has its de-vendored
\* import path in the discovery set.
C18_ReachableIsDiscovered ==
    (WalkReturned /\ err = "nil" /\ world.root.err = "nil") =>
        \A imp \in Reachable :
            (Chosen(imp).err = "nil" /\ ~Chosen(imp).Goroot /\ ~InProject(imp))
                => imp \in soFar

====
